---- MODULE Spec2Model ----
(***************************************************************************)
(* Model of the Graph component of graph-now (frontend/src/lib/Graph.tsx   *)
(* and utils.ts): the selection / hover / focus state machine, the         *)
(* connectivity mapper with the opacity policy, the layout guard, and the  *)
(* collision resolver of the layout engine.                                *)
(*                                                                         *)
(* Numbers.  JavaScript numbers are modelled in fixed point: angles are    *)
(* counted in half degrees (every angle the layout produces is a multiple  *)
(* of 0.5 degree), coordinates in 1/10000 pixel, and Math.sin / Math.cos   *)
(* by a table of sin(k/2 degree) * 10000.  Opacities are counted in tenths *)
(* (1 -> 10, 0.2 -> 2).                                                    *)
(***************************************************************************)
EXTENDS Integers, Sequences, FiniteSets, TLC

VARIABLES
    microservice,      \* prop: the graph, or absent
    width, height,     \* props: canvas size in pixels
    configuration,     \* prop: the configuration object
    layoutMemo,        \* useMemo: the dependencies and the value of the layout
    hoveredElement,    \* useState<ElementRef | null>
    selectedElement,   \* useState<ElementRef | null>
    focusedElement,    \* useState<ElementRef | null>
    tooltip,           \* useState<TooltipState>
    lastEvent,         \* history: the last event handled
    selBefore,         \* history: selectedElement before the last event
    positions,         \* resolveCollisions: argument
    ringRadius,        \* resolveCollisions: argument
    direction,         \* resolveCollisions: argument
    resolved,          \* resolveCollisions: local working copy
    hasCollision,      \* resolveCollisions: local
    iterations,        \* resolveCollisions: local
    i, j,              \* resolveCollisions: loop indices (0-based, as in the code)
    visited,           \* history: the pairs tested so far in the current pass
    pc,                \* resolveCollisions: position in the function
    call,              \* a call of a geometry primitive: its name and arguments
    result             \* the value the call returned

uiVars == <<microservice, hoveredElement, selectedElement, focusedElement,
            tooltip, lastEvent, selBefore>>
rcVars == <<positions, ringRadius, direction, resolved, hasCollision,
            iterations, i, j, visited, pc>>
geomVars == <<call, result>>
vars == <<microservice, width, height, configuration, layoutMemo, hoveredElement, selectedElement,
          focusedElement, tooltip, lastEvent, selBefore, positions, ringRadius,
          direction, resolved, hasCollision, iterations, i, j, visited, pc,
          call, result>>

(***************************************************************************)
(* Data model                                                              *)
(***************************************************************************)
Names == {"X", "Y"}

Types == {"microservice", "gateway", "inbound", "outbound"}

\* null of ElementRef | null
Null == [type |-> "null", name |-> "null"]

ElementRef(type, name) == [type |-> type, name |-> name]

Refs == {ElementRef(t, n) : t \in Types, n \in Names}

\* A list that may be absent (gw.inbound?., microservice.gateways?.)
Absent == [present |-> FALSE, items |-> <<>>]

List(s) == [present |-> TRUE, items |-> s]

Gateway(name, inbound, outbound) ==
    [name |-> name, inbound |-> inbound, outbound |-> outbound]

NoMicroservice == [present |-> FALSE, name |-> "null", gateways |-> Absent]

Microservice(name, gateways) ==
    [present |-> TRUE, name |-> name, gateways |-> gateways]

\* The graphs the microservice prop ranges over.  Names are unique within a
\* role but shared across roles (gateway X, inbound X and outbound X coexist).
Graphs ==
    { NoMicroservice,
      Microservice("X", Absent),
      Microservice("Y", List(<<>>)),
      Microservice("X", List(<<Gateway("X", List(<<"X", "Y">>), List(<<"X">>))>>)),
      Microservice("Y", List(<<Gateway("X", List(<<"Y">>), List(<<"X", "Y">>)),
                               Gateway("Y", List(<<"X">>), Absent)>>)),
      Microservice("X", List(<<Gateway("Y", List(<<>>), List(<<"Y">>))>>)) }

Range(s) == {s[k] : k \in 1..Len(s)}

\* msData.gateways as the sequence the optional chaining iterates over
GatewaysOf(msData) ==
    IF msData.present /\ msData.gateways.present THEN msData.gateways.items ELSE <<>>

ItemsOf(list) == IF list.present THEN list.items ELSE <<>>

(***************************************************************************)
(* Connectivity / focus mapper                                             *)
(***************************************************************************)
NullConnected ==
    [null |-> TRUE, microservice |-> FALSE, gateways |-> {}, inbound |-> {},
     outbound |-> {}]

\* Array.prototype.find: the first gateway with the name, as a set of 0 or 1
FindGateway(gws, name) ==
    LET idx == {k \in 1..Len(gws) : gws[k].name = name}
    IN  IF idx = {} THEN {}
        ELSE {gws[CHOOSE k \in idx : \A m \in idx : k <= m]}

\* getConnectedElements without the forEach of the microservice branch
getConnectedElementsRootOnly(focused, msData) ==
    IF focused = Null \/ ~msData.present
    THEN NullConnected
    ELSE LET gws == GatewaysOf(msData)
         IN  [null |-> FALSE,
              microservice |-> focused.type \in {"microservice", "gateway"},
              gateways |->
                  IF focused.type = "microservice"
                  THEN {}
                  ELSE IF focused.type = "gateway"
                  THEN {focused.name}
                  ELSE IF focused.type = "inbound"
                  THEN {gws[k].name : k \in {m \in 1..Len(gws) :
                            focused.name \in Range(ItemsOf(gws[m].inbound))}}
                  ELSE {gws[k].name : k \in {m \in 1..Len(gws) :
                            focused.name \in Range(ItemsOf(gws[m].outbound))}},
              inbound |->
                  IF focused.type = "gateway"
                  THEN UNION {Range(ItemsOf(g.inbound)) : g \in FindGateway(gws, focused.name)}
                  ELSE IF focused.type = "inbound" THEN {focused.name} ELSE {},
              outbound |->
                  IF focused.type = "gateway"
                  THEN UNION {Range(ItemsOf(g.outbound)) : g \in FindGateway(gws, focused.name)}
                  ELSE IF focused.type = "outbound" THEN {focused.name} ELSE {}]

\* getConnectedElements whose endpoint branches search the other list
getConnectedElementsSwappedLists(focused, msData) ==
    IF focused = Null \/ ~msData.present
    THEN NullConnected
    ELSE LET gws == GatewaysOf(msData)
         IN  [null |-> FALSE,
              microservice |-> focused.type \in {"microservice", "gateway"},
              gateways |->
                  IF focused.type = "microservice"
                  THEN {gws[k].name : k \in 1..Len(gws)}
                  ELSE IF focused.type = "gateway"
                  THEN {focused.name}
                  ELSE IF focused.type = "inbound"
                  THEN {gws[k].name : k \in {m \in 1..Len(gws) :
                            focused.name \in Range(ItemsOf(gws[m].outbound))}}
                  ELSE {gws[k].name : k \in {m \in 1..Len(gws) :
                            focused.name \in Range(ItemsOf(gws[m].inbound))}},
              inbound |->
                  IF focused.type = "gateway"
                  THEN UNION {Range(ItemsOf(g.inbound)) : g \in FindGateway(gws, focused.name)}
                  ELSE IF focused.type = "inbound" THEN {focused.name} ELSE {},
              outbound |->
                  IF focused.type = "gateway"
                  THEN UNION {Range(ItemsOf(g.outbound)) : g \in FindGateway(gws, focused.name)}
                  ELSE IF focused.type = "outbound" THEN {focused.name} ELSE {}]

\* getConnectedElements whose endpoint branches do not add the focused name
getConnectedElementsWithoutSelf(focused, msData) ==
    IF focused = Null \/ ~msData.present
    THEN NullConnected
    ELSE LET gws == GatewaysOf(msData)
         IN  [null |-> FALSE,
              microservice |-> focused.type \in {"microservice", "gateway"},
              gateways |->
                  IF focused.type = "microservice"
                  THEN {gws[k].name : k \in 1..Len(gws)}
                  ELSE IF focused.type = "gateway"
                  THEN {focused.name}
                  ELSE IF focused.type = "inbound"
                  THEN {gws[k].name : k \in {m \in 1..Len(gws) :
                            focused.name \in Range(ItemsOf(gws[m].inbound))}}
                  ELSE {gws[k].name : k \in {m \in 1..Len(gws) :
                            focused.name \in Range(ItemsOf(gws[m].outbound))}},
              inbound |->
                  IF focused.type = "gateway"
                  THEN UNION {Range(ItemsOf(g.inbound)) : g \in FindGateway(gws, focused.name)}
                  ELSE {},
              outbound |->
                  IF focused.type = "gateway"
                  THEN UNION {Range(ItemsOf(g.outbound)) : g \in FindGateway(gws, focused.name)}
                  ELSE {}]

getConnectedElementsGatewayLeak(focused, msData) ==
    IF focused = Null \/ ~msData.present
    THEN NullConnected
    ELSE LET gws == GatewaysOf(msData)
         IN  [null |-> FALSE,
              microservice |-> focused.type \in {"microservice", "gateway"},
              gateways |->
                  IF focused.type \in {"microservice", "gateway"}
                  THEN {gws[k].name : k \in 1..Len(gws)} \cup
                       (IF focused.type = "gateway" THEN {focused.name} ELSE {})
                  ELSE IF focused.type = "inbound"
                  THEN {gws[k].name : k \in {m \in 1..Len(gws) :
                            focused.name \in Range(ItemsOf(gws[m].inbound))}}
                  ELSE {gws[k].name : k \in {m \in 1..Len(gws) :
                            focused.name \in Range(ItemsOf(gws[m].outbound))}},
              inbound |->
                  IF focused.type = "gateway"
                  THEN UNION {Range(ItemsOf(g.inbound)) : g \in FindGateway(gws, focused.name)}
                  ELSE IF focused.type = "inbound" THEN {focused.name} ELSE {},
              outbound |->
                  IF focused.type = "gateway"
                  THEN UNION {Range(ItemsOf(g.outbound)) : g \in FindGateway(gws, focused.name)}
                  ELSE IF focused.type = "outbound" THEN {focused.name} ELSE {}]

getConnectedElements(focused, msData) ==
    IF focused = Null \/ ~msData.present
    THEN NullConnected
    ELSE LET gws == GatewaysOf(msData)
         IN  [null |-> FALSE,
              microservice |-> focused.type \in {"microservice", "gateway"},
              gateways |->
                  IF focused.type = "microservice"
                  THEN {gws[k].name : k \in 1..Len(gws)}
                  ELSE IF focused.type = "gateway"
                  THEN {focused.name}
                  ELSE IF focused.type = "inbound"
                  THEN {gws[k].name : k \in {m \in 1..Len(gws) :
                            focused.name \in Range(ItemsOf(gws[m].inbound))}}
                  ELSE {gws[k].name : k \in {m \in 1..Len(gws) :
                            focused.name \in Range(ItemsOf(gws[m].outbound))}},
              inbound |->
                  IF focused.type = "gateway"
                  THEN UNION {Range(ItemsOf(g.inbound)) : g \in FindGateway(gws, focused.name)}
                  ELSE IF focused.type = "inbound" THEN {focused.name} ELSE {},
              outbound |->
                  IF focused.type = "gateway"
                  THEN UNION {Range(ItemsOf(g.outbound)) : g \in FindGateway(gws, focused.name)}
                  ELSE IF focused.type = "outbound" THEN {focused.name} ELSE {}]

\* useMemo(() => getConnectedElements(focusedElement, microservice), [...]):
\* every dependency is listed, so the memo equals the recomputation
connectedElements == getConnectedElements(focusedElement, microservice)

Opaque == 10

Dimmed == 2

\* getOpacity without the early return for no focus
getOpacityNoFocusCheck(name, type) ==
    IF type = "microservice"
    THEN (IF connectedElements.microservice THEN Opaque ELSE Dimmed)
    ELSE IF type = "gateway"
         THEN (IF name \in connectedElements.gateways THEN Opaque ELSE Dimmed)
    ELSE IF type = "inbound"
         THEN (IF name \in connectedElements.inbound THEN Opaque ELSE Dimmed)
    ELSE IF type = "outbound"
         THEN (IF name \in connectedElements.outbound THEN Opaque ELSE Dimmed)
    ELSE Opaque

getOpacity(name, type) ==
    IF focusedElement = Null \/ connectedElements.null THEN Opaque
    ELSE IF type = "microservice"
         THEN (IF connectedElements.microservice THEN Opaque ELSE Dimmed)
    ELSE IF type = "gateway"
         THEN (IF name \in connectedElements.gateways THEN Opaque ELSE Dimmed)
    ELSE IF type = "inbound"
         THEN (IF name \in connectedElements.inbound THEN Opaque ELSE Dimmed)
    ELSE IF type = "outbound"
         THEN (IF name \in connectedElements.outbound THEN Opaque ELSE Dimmed)
    ELSE Opaque

getConnectionOpacityEitherEnd(fromType, fromName, toType, toName) ==
    IF focusedElement = Null \/ connectedElements.null THEN Opaque
    ELSE LET fromVisible == getOpacity(fromName, fromType) = Opaque
             toVisible == getOpacity(toName, toType) = Opaque
         IN  IF fromVisible \/ toVisible THEN Opaque ELSE Dimmed

getConnectionOpacity(fromType, fromName, toType, toName) ==
    IF focusedElement = Null \/ connectedElements.null THEN Opaque
    ELSE LET fromVisible == getOpacity(fromName, fromType) = Opaque
             toVisible == getOpacity(toName, toType) = Opaque
         IN  IF fromVisible /\ toVisible THEN Opaque ELSE Dimmed

(***************************************************************************)
(* Layout guard and what the component renders                             *)
(***************************************************************************)
\* if (!microservice || !microservice.gateways) return null;  ([] is truthy)
LayoutIsNullWhenEmpty(ms) ==
    ~ms.present \/ ~ms.gateways.present \/ ms.gateways.items = <<>>

LayoutIsNull(ms) == ~ms.present \/ ~ms.gateways.present

\* if (!microservice || !layout) return <div className="graph-container graph-empty">
RendersEmptyState == ~microservice.present \/ LayoutIsNull(microservice)

\* svgRef.current is the <svg> of the non-empty render
SvgMounted == ~RendersEmptyState

\* The nodes of the rendered graph, one per <Circle> / <Rectangle>
RenderedNodes ==
    IF RendersEmptyState THEN {}
    ELSE LET gws == GatewaysOf(microservice)
         IN  {ElementRef("microservice", microservice.name)}
             \cup {ElementRef("gateway", gws[k].name) : k \in 1..Len(gws)}
             \cup UNION {{ElementRef("inbound", e) : e \in Range(ItemsOf(gws[k].inbound))}
                            : k \in 1..Len(gws)}
             \cup UNION {{ElementRef("outbound", e) : e \in Range(ItemsOf(gws[k].outbound))}
                            : k \in 1..Len(gws)}

\* The edges of the rendered graph, one per <Edge>, as <<from, to>>
RenderedEdges ==
    IF RendersEmptyState THEN {}
    ELSE LET gws == GatewaysOf(microservice)
         IN  {<<ElementRef("microservice", microservice.name),
                ElementRef("gateway", gws[k].name)>> : k \in 1..Len(gws)}
             \cup UNION {{<<ElementRef("gateway", gws[k].name), ElementRef("outbound", e)>>
                              : e \in Range(ItemsOf(gws[k].outbound))} : k \in 1..Len(gws)}
             \cup UNION {{<<ElementRef("inbound", e), ElementRef("gateway", gws[k].name)>>
                              : e \in Range(ItemsOf(gws[k].inbound))} : k \in 1..Len(gws)}

isSelected(name, type) ==
    selectedElement.name = name /\ selectedElement.type = type

isHovered(name, type) ==
    hoveredElement.name = name /\ hoveredElement.type = type

(***************************************************************************)
(* Geometry in fixed point                                                 *)
(***************************************************************************)
\* coordinates are counted in 1/Scale pixel
Scale == 10000

\* one degree in angle units (half degrees)
Deg == 2

\* Math.sin of 0, 0.5, 1, ... 90 degrees, times Scale, rounded
SinTable ==
  << 0, 87, 175, 262, 349, 436, 523, 610, 698, 785, 872, 958,
     1045, 1132, 1219, 1305, 1392, 1478, 1564, 1650, 1736, 1822, 1908, 1994,
     2079, 2164, 2250, 2334, 2419, 2504, 2588, 2672, 2756, 2840, 2924, 3007,
     3090, 3173, 3256, 3338, 3420, 3502, 3584, 3665, 3746, 3827, 3907, 3987,
     4067, 4147, 4226, 4305, 4384, 4462, 4540, 4617, 4695, 4772, 4848, 4924,
     5000, 5075, 5150, 5225, 5299, 5373, 5446, 5519, 5592, 5664, 5736, 5807,
     5878, 5948, 6018, 6088, 6157, 6225, 6293, 6361, 6428, 6494, 6561, 6626,
     6691, 6756, 6820, 6884, 6947, 7009, 7071, 7133, 7193, 7254, 7314, 7373,
     7431, 7490, 7547, 7604, 7660, 7716, 7771, 7826, 7880, 7934, 7986, 8039,
     8090, 8141, 8192, 8241, 8290, 8339, 8387, 8434, 8480, 8526, 8572, 8616,
     8660, 8704, 8746, 8788, 8829, 8870, 8910, 8949, 8988, 9026, 9063, 9100,
     9135, 9171, 9205, 9239, 9272, 9304, 9336, 9367, 9397, 9426, 9455, 9483,
     9511, 9537, 9563, 9588, 9613, 9636, 9659, 9681, 9703, 9724, 9744, 9763,
     9781, 9799, 9816, 9833, 9848, 9863, 9877, 9890, 9903, 9914, 9925, 9936,
     9945, 9954, 9962, 9969, 9976, 9981, 9986, 9990, 9994, 9997, 9998, 10000,
     10000 >>

\* Math.sin of an angle in half degrees, times Scale
Sin(a) ==
    LET h == a % (360 * Deg)
    IN  IF h <= 90 * Deg THEN SinTable[h + 1]
        ELSE IF h <= 180 * Deg THEN SinTable[180 * Deg - h + 1]
        ELSE IF h <= 270 * Deg THEN 0 - SinTable[h - 180 * Deg + 1]
        ELSE 0 - SinTable[360 * Deg - h + 1]

\* Math.cos of an angle in half degrees, times Scale
Cos(a) == Sin(a + 90 * Deg)

Position(x, y) == [x |-> x, y |-> y]

\* centerX, centerY in pixels; the angle is offset by -90 degrees so that 0
\* points up; the result is in 1/Scale pixel
getPointOnCircle(centerX, centerY, radius, angle) ==
    Position(centerX * Scale + radius * Cos(angle - 90 * Deg),
             centerY * Scale + radius * Sin(angle - 90 * Deg))

(***************************************************************************)
(* Layout engine: ideal positions and the collision resolver               *)
(***************************************************************************)
endpointWidth == 120

endpointHeight == 32

gatewayRingRadius == 140

maxIterations == 100

\* const centerX = width / 2; const centerY = height / 2
centerX == width \div 2

centerY == height \div 2

createRectPosition(centerPos, angle) ==
    [x |-> centerPos.x,
     y |-> centerPos.y,
     angle |-> angle,
     topLeft |-> Position(centerPos.x - (endpointWidth * Scale) \div 2,
                          centerPos.y - (endpointHeight * Scale) \div 2),
     bottomRight |-> Position(centerPos.x + (endpointWidth * Scale) \div 2,
                              centerPos.y + (endpointHeight * Scale) \div 2)]

\* rectsCollide comparing the left edges instead of right edge against left edge
rectsCollideLeftEdges(rect1, rect2) ==
    ~( \/ rect1.topLeft.x < rect2.topLeft.x
       \/ rect2.bottomRight.x < rect1.topLeft.x
       \/ rect1.bottomRight.y < rect2.topLeft.y
       \/ rect2.bottomRight.y < rect1.topLeft.y )

rectsCollide(rect1, rect2) ==
    ~( \/ rect1.bottomRight.x < rect2.topLeft.x
       \/ rect2.bottomRight.x < rect1.topLeft.x
       \/ rect1.bottomRight.y < rect2.topLeft.y
       \/ rect2.bottomRight.y < rect1.topLeft.y )

distributeOnArc(count, startAngle, endAngle) ==
    IF count = 0 THEN <<>>
    ELSE IF count = 1 THEN <<(startAngle + endAngle) \div 2>>
    ELSE LET angleStep == (endAngle - startAngle) \div (count - 1)
         IN  [k \in 1..count |-> startAngle + (k - 1) * angleStep]

\* distributeOnArc(gatewayCount, 0, 360): the arc closed to a full turn
gatewayAnglesFullTurn(gatewayCount) ==
    distributeOnArc(gatewayCount, 0, 360 * Deg)

\* distributeOnArc(gatewayCount, 0, 360 - 360 / Math.max(gatewayCount, 1))
gatewayAngles(gatewayCount) ==
    distributeOnArc(gatewayCount, 0,
        360 * Deg - (360 * Deg) \div (IF gatewayCount > 1 THEN gatewayCount ELSE 1))

inboundRingRadius(ringGap) == gatewayRingRadius + ringGap

outboundRingRadius(ringGap) == gatewayRingRadius + ringGap * 2

\* the cluster laid out from its centre angle on, without centring
IdealPositionsFromCentre(count, centerAngle, radius) ==
    LET spacing == 15 * Deg
    IN  [k \in 1..count |->
            LET a == centerAngle + (k - 1) * spacing
            IN  createRectPosition(getPointOnCircle(centerX, centerY, radius, a), a)]

\* the ideal inbound or outbound cluster of one gateway: count rectangles
\* spaced 15 degrees apart and centred on centerAngle
IdealPositions(count, centerAngle, radius) ==
    LET spacing == 15 * Deg
        totalSpan == IF (count - 1) * spacing > 0 THEN (count - 1) * spacing ELSE 0
        startAngle == centerAngle - totalSpan \div 2
    IN  [k \in 1..count |->
            LET a == startAngle + (k - 1) * spacing
            IN  createRectPosition(getPointOnCircle(centerX, centerY, radius, a), a)]

\* a move that updates the angle and the centre and keeps the old bounding box
MoveAlongRingStaleBox(rect, radius, dir) ==
    LET newAngle == rect.angle + dir * 3 * Deg
        newCenter == getPointOnCircle(centerX, centerY, radius, newAngle)
    IN  [rect EXCEPT !.x = newCenter.x, !.y = newCenter.y, !.angle = newAngle]

\* the rectangle the resolver puts in place of rect after a detected overlap
MoveAlongRingIgnoringDirection(rect, radius, dir) ==
    LET newAngle == rect.angle + 3 * Deg
    IN  createRectPosition(getPointOnCircle(centerX, centerY, radius, newAngle), newAngle)

MoveAlongRing(rect, radius, dir) ==
    LET newAngle == rect.angle + dir * 3 * Deg
    IN  createRectPosition(getPointOnCircle(centerX, centerY, radius, newAngle), newAngle)

\* all index pairs (i, j) with i < j of a sequence of n rectangles (0-based)
AllPairs(n) == {<<a, b>> \in (0..(n - 1)) \X (0..(n - 1)) : a < b}

\* while (hasCollision && iterations < maxIterations)
LoopContinuesOneMore(collision, iters) == collision /\ iters <= maxIterations

LoopContinues(collision, iters) == collision /\ iters < maxIterations

\* one pass of the two for loops from pair (a, b) on, 0-based: the rectangles
\* after it and whether any pair collided (res is bound to the value of the
\* array at this point of the pass)
RECURSIVE ResolvePairs(_, _, _, _, _, _)
RECURSIVE ResolvePairsSelfPairs(_, _, _, _, _, _)

\* the pass whose inner loop starts at j = i instead of j = i + 1 from the
\* second row on, so that a rectangle is tested against itself
ResolvePairsSelfPairs(rects, a, b, collided, radius, dir) ==
    CHOOSE pass \in
        { LET hit == rectsCollide(res[a + 1], res[b + 1])
              moved == IF hit
                       THEN [res EXCEPT ![b + 1] = MoveAlongRing(res[b + 1], radius, dir)]
                       ELSE res
          IN  IF b + 1 < Len(res)
              THEN ResolvePairsSelfPairs(moved, a, b + 1, collided \/ hit, radius, dir)
              ELSE IF a + 2 < Len(res)
              THEN ResolvePairsSelfPairs(moved, a + 1, a + 1, collided \/ hit, radius, dir)
              ELSE [resolved |-> moved, hasCollision |-> collided \/ hit]
          : res \in {rects} } : TRUE

ResolvePairs(rects, a, b, collided, radius, dir) ==
    CHOOSE pass \in
        { LET hit == rectsCollide(res[a + 1], res[b + 1])
              moved == IF hit
                       THEN [res EXCEPT ![b + 1] = MoveAlongRing(res[b + 1], radius, dir)]
                       ELSE res
          IN  IF b + 1 < Len(res)
              THEN ResolvePairs(moved, a, b + 1, collided \/ hit, radius, dir)
              ELSE IF a + 2 < Len(res)
              THEN ResolvePairs(moved, a + 1, a + 2, collided \/ hit, radius, dir)
              ELSE [resolved |-> moved, hasCollision |-> collided \/ hit]
          : res \in {rects} } : TRUE

\* the while loop from its test on
RECURSIVE ResolveWhile(_, _, _, _, _)
ResolveWhile(rects, collision, iters, radius, dir) ==
    IF LoopContinues(collision, iters)
    THEN CHOOSE out \in
             { ResolveWhile(pass.resolved, pass.hasCollision, iters + 1, radius, dir)
               : pass \in {ResolvePairs(rects, 0, 1, FALSE, radius, dir)} } : TRUE
    ELSE rects

\* resolveCollisions as the function the layout calls
resolveCollisions(rects, radius, dir) ==
    IF Len(rects) < 2 THEN rects
    ELSE ResolveWhile(rects, TRUE, 0, radius, dir)

defaultRingGap == 90

\* gateway.inbound?.length || 1
EndpointCountOrOne(list) ==
    IF Len(ItemsOf(list)) = 0 THEN 1 ELSE Len(ItemsOf(list))

\* gateway.inbound?.length || 0
EndpointCount(list) == Len(ItemsOf(list))

\* gateways.map(...) that resolves the outbound cluster of a gateway together
\* with its inbound cluster
gatewayLayoutsJointClusters(ms, ringGap) ==
    LET gateways == ms.gateways.items
        angles == gatewayAngles(Len(gateways))
    IN  [k \in 1..Len(gateways) |->
            LET gateway == gateways[k]
                angle == angles[k]
                idealInbound ==
                    IdealPositions(EndpointCount(gateway.inbound), angle - 20 * Deg,
                                   inboundRingRadius(ringGap))
                idealOutbound ==
                    IdealPositions(EndpointCount(gateway.outbound), angle + 20 * Deg,
                                   outboundRingRadius(ringGap))
                joint == resolveCollisions(idealInbound \o idealOutbound,
                                           outboundRingRadius(ringGap), 1)
            IN  [gateway |-> gateway,
                 position |-> getPointOnCircle(centerX, centerY, gatewayRingRadius, angle),
                 angle |-> angle,
                 idealInbound |-> idealInbound,
                 idealOutbound |-> idealOutbound,
                 inboundPositions |->
                     resolveCollisions(idealInbound, inboundRingRadius(ringGap), -1),
                 outboundPositions |->
                     SubSeq(joint, Len(idealInbound) + 1, Len(joint))]]

\* gateways.map(...): per gateway its angle, its position, and its inbound and
\* outbound clusters as built by Array.from (ideal) and as returned by
\* resolveCollisions
gatewayLayouts(ms, ringGap) ==
    LET gateways == ms.gateways.items
        angles == gatewayAngles(Len(gateways))
    IN  [k \in 1..Len(gateways) |->
            LET gateway == gateways[k]
                angle == angles[k]
                idealInbound ==
                    IdealPositions(EndpointCount(gateway.inbound), angle - 20 * Deg,
                                   inboundRingRadius(ringGap))
                idealOutbound ==
                    IdealPositions(EndpointCount(gateway.outbound), angle + 20 * Deg,
                                   outboundRingRadius(ringGap))
            IN  [gateway |-> gateway,
                 position |-> getPointOnCircle(centerX, centerY, gatewayRingRadius, angle),
                 angle |-> angle,
                 idealInbound |-> idealInbound,
                 idealOutbound |-> idealOutbound,
                 inboundPositions |->
                     resolveCollisions(idealInbound, inboundRingRadius(ringGap), -1),
                 outboundPositions |->
                     resolveCollisions(idealOutbound, outboundRingRadius(ringGap), 1)]]

NullLayout == [null |-> TRUE, gatewayLayouts |-> <<>>]

\* the configuration prop: {} or {ringGap: {value}}
NoConfiguration == [ringGap |-> [present |-> FALSE, value |-> 0]]

Configuration(value) == [ringGap |-> [present |-> TRUE, value |-> value]]

\* configuration.ringGap?.value ?? defaultRingGap
ringGap ==
    IF configuration.ringGap.present THEN configuration.ringGap.value
    ELSE defaultRingGap

\* what the callback of the layout memo returns for the current props
layout ==
    IF LayoutIsNull(microservice) THEN NullLayout
    ELSE [null |-> FALSE, gatewayLayouts |-> gatewayLayouts(microservice, ringGap)]

\* a dependency list without the centre and the ring radii
LayoutDepsOnlyMicroservice ==
    <<microservice, endpointWidth, endpointHeight, gatewayRingRadius>>

\* the dependency list of the layout memo
LayoutDeps ==
    <<microservice, centerX, centerY, endpointWidth, endpointHeight,
      gatewayRingRadius, inboundRingRadius(ringGap), outboundRingRadius(ringGap)>>

\* the memo after the first render
FirstRender == [deps |-> LayoutDeps, value |-> layout]

\* useMemo in the render that follows a step: the callback runs again only
\* when a dependency differs from the one of the last run
Rerender ==
    layoutMemo' = IF LayoutDeps' = layoutMemo.deps THEN layoutMemo
                  ELSE [deps |-> LayoutDeps', value |-> layout']

(***************************************************************************)
(* Selection / hover handlers                                              *)
(***************************************************************************)
HiddenTooltip == [visible |-> FALSE, x |-> 0, y |-> 0, content |-> ""]

\* e.clientX - rect.left and e.clientY - rect.top of a pointer event
PointerOffsets == {<<0, 0>>, <<5, 7>>}

Details == {"details"}

\* e.target of a click reaching the <svg>: the svg itself, the background
\* <rect data-background="true">, or any other element (node, edge, ring)
Targets ==
    { [tagName |-> "svg", background |-> FALSE],
      [tagName |-> "rect", background |-> TRUE],
      [tagName |-> "rect", background |-> FALSE],
      [tagName |-> "path", background |-> FALSE] }

NodeTarget == [tagName |-> "rect", background |-> FALSE]

NoTarget == [tagName |-> "null", background |-> FALSE]

\* history record of one handled event
Event(kind, ref, target) == [kind |-> kind, ref |-> ref, target |-> target]

\* the updater handleClick passes to setSelectedElement / setFocusedElement
ToggleRefByName(prev, element, type) ==
    IF prev.name = element THEN Null ELSE ElementRef(type, element)

ToggleRef(prev, element, type) ==
    IF prev.name = element /\ prev.type = type THEN Null ELSE ElementRef(type, element)

\* the updater of setFocusedElement in handleClick
ToggleFocusKeep(prev, element, type) == ElementRef(type, element)

ToggleFocus(prev, element, type) ==
    IF prev.name = element /\ prev.type = type THEN Null ELSE ElementRef(type, element)

ClearsOnAnyTarget(target) == TRUE

\* target.tagName === 'svg' || target.dataset.background === 'true'
ClearsSelection(target) == target.tagName = "svg" \/ target.background

\* handleBackgroundClick applied to the pair <<selected, focused>>
handleBackgroundClick(target, sel, foc) ==
    IF ClearsSelection(target) THEN <<Null, Null>> ELSE <<sel, foc>>

\* A click on a node: the node's onClick runs handleClick, then the event
\* bubbles to the <svg> whose onClick runs handleBackgroundClick with the
\* node's element as target.
ClickElement(element, type) ==
    /\ LET afterClick == <<ToggleRef(selectedElement, element, type),
                           ToggleFocus(focusedElement, element, type)>>
           afterBubble == handleBackgroundClick(NodeTarget, afterClick[1], afterClick[2])
       IN  /\ selectedElement' = afterBubble[1]
           /\ focusedElement' = afterBubble[2]
    /\ lastEvent' = Event("click", ElementRef(type, element), NodeTarget)
    /\ selBefore' = selectedElement
    /\ UNCHANGED <<microservice, width, height, configuration, hoveredElement, tooltip>>
    /\ UNCHANGED rcVars
    /\ UNCHANGED geomVars
    /\ Rerender

\* A click that reaches the <svg> without passing through a node
BackgroundClick(target) ==
    /\ LET after == handleBackgroundClick(target, selectedElement, focusedElement)
       IN  /\ selectedElement' = after[1]
           /\ focusedElement' = after[2]
    /\ lastEvent' = Event("background", Null, target)
    /\ selBefore' = selectedElement
    /\ UNCHANGED <<microservice, width, height, configuration, hoveredElement, tooltip>>
    /\ UNCHANGED rcVars
    /\ UNCHANGED geomVars
    /\ Rerender

MouseEnter(element, type, offset, details) ==
    /\ IF ~SvgMounted
       THEN UNCHANGED <<hoveredElement, tooltip>>
       ELSE /\ hoveredElement' = ElementRef(type, element)
            /\ tooltip' = [visible |-> TRUE, x |-> offset[1] + 10,
                           y |-> offset[2] - 10, content |-> details]
    /\ lastEvent' = Event("enter", ElementRef(type, element), NoTarget)
    /\ selBefore' = selectedElement
    /\ UNCHANGED <<microservice, width, height, configuration, selectedElement, focusedElement>>
    /\ UNCHANGED rcVars
    /\ UNCHANGED geomVars
    /\ Rerender

\* handleMouseLeave that clears the hover but leaves the tooltip as it was
MouseLeaveKeepsTooltip ==
    /\ hoveredElement' = Null
    /\ lastEvent' = Event("leave", Null, NoTarget)
    /\ selBefore' = selectedElement
    /\ UNCHANGED <<microservice, width, height, configuration, selectedElement, focusedElement, tooltip>>
    /\ UNCHANGED rcVars
    /\ UNCHANGED geomVars
    /\ Rerender

\* handleMouseLeave that also drops the selection and the focus
MouseLeaveClearsSelection ==
    /\ hoveredElement' = Null
    /\ tooltip' = HiddenTooltip
    /\ selectedElement' = Null
    /\ focusedElement' = Null
    /\ lastEvent' = Event("leave", Null, NoTarget)
    /\ selBefore' = selectedElement
    /\ UNCHANGED <<microservice, width, height, configuration>>
    /\ UNCHANGED rcVars
    /\ UNCHANGED geomVars
    /\ Rerender

MouseLeave ==
    /\ hoveredElement' = Null
    /\ tooltip' = HiddenTooltip
    /\ lastEvent' = Event("leave", Null, NoTarget)
    /\ selBefore' = selectedElement
    /\ UNCHANGED <<microservice, width, height, configuration, selectedElement, focusedElement>>
    /\ UNCHANGED rcVars
    /\ UNCHANGED geomVars
    /\ Rerender

\* The parent re-renders <Graph> with another microservice prop; useState
\* values survive the re-render.
SetMicroservice(ms) ==
    /\ ms # microservice
    /\ microservice' = ms
    /\ lastEvent' = Event("props", Null, NoTarget)
    /\ selBefore' = selectedElement
    /\ UNCHANGED <<width, height, configuration, hoveredElement, selectedElement, focusedElement, tooltip>>
    /\ UNCHANGED rcVars
    /\ UNCHANGED geomVars
    /\ Rerender

\* canvas sizes: the default props and the ones App passes
Sizes == {<<800, 800>>, <<900, 900>>}

\* configurations: none, the default gap given explicitly, collapsed rings
Configurations == {NoConfiguration, Configuration(defaultRingGap), Configuration(0)}

\* The parent re-renders <Graph> with another width and height
SetSize(w, h) ==
    /\ <<w, h>> # <<width, height>>
    /\ width' = w
    /\ height' = h
    /\ lastEvent' = Event("props", Null, NoTarget)
    /\ selBefore' = selectedElement
    /\ UNCHANGED <<microservice, configuration, hoveredElement, selectedElement,
                   focusedElement, tooltip>>
    /\ UNCHANGED rcVars
    /\ UNCHANGED geomVars
    /\ Rerender

\* The parent re-renders <Graph> with another configuration prop
SetConfiguration(cfg) ==
    /\ cfg # configuration
    /\ configuration' = cfg
    /\ lastEvent' = Event("props", Null, NoTarget)
    /\ selBefore' = selectedElement
    /\ UNCHANGED <<microservice, width, height, hoveredElement, selectedElement,
                   focusedElement, tooltip>>
    /\ UNCHANGED rcVars
    /\ UNCHANGED geomVars
    /\ Rerender

\* no geometry call in progress
NoCall == [fn |-> "none"]

GeomIdle ==
    /\ call = NoCall
    /\ result = NoCall

RcIdle ==
    /\ positions = <<>>
    /\ ringRadius = 0
    /\ direction = 1
    /\ resolved = <<>>
    /\ hasCollision = FALSE
    /\ iterations = 0
    /\ i = 0
    /\ j = 0
    /\ visited = {}
    /\ pc = "idle"

UiInit ==
    /\ hoveredElement = Null
    /\ selectedElement = Null
    /\ focusedElement = Null
    /\ tooltip = HiddenTooltip
    /\ lastEvent = Event("none", Null, NoTarget)
    /\ selBefore = Null

Init ==
    /\ microservice \in Graphs
    /\ width = 800
    /\ height = 800
    /\ configuration = NoConfiguration
    /\ layoutMemo = FirstRender
    /\ UiInit
    /\ RcIdle
    /\ GeomIdle

Next ==
    \/ \E n \in Names, t \in Types : ClickElement(n, t)
    \/ \E target \in Targets : BackgroundClick(target)
    \/ \E n \in Names, t \in Types, o \in PointerOffsets, d \in Details :
           MouseEnter(n, t, o, d)
    \/ MouseLeave
    \/ \E ms \in Graphs : SetMicroservice(ms)

Spec == Init /\ [][Next]_vars

\* The component under changing props: the parent passes another graph, canvas
\* size or configuration between clicks.
NextProps ==
    \/ \E ms \in Graphs : SetMicroservice(ms)
    \/ \E sz \in Sizes : SetSize(sz[1], sz[2])
    \/ \E cfg \in Configurations : SetConfiguration(cfg)
    \/ \E n \in Names, t \in Types : ClickElement(n, t)
    \/ \E target \in Targets : BackgroundClick(target)

SpecProps == Init /\ [][NextProps]_vars

\* resolveCollisions whose early return hands back an empty array
RcEnterDropsShort ==
    /\ pc = "start"
    /\ IF Len(positions) < 2
       THEN /\ resolved' = <<>>
            /\ pc' = "done"
            /\ UNCHANGED <<hasCollision, iterations>>
       ELSE /\ resolved' = positions
            /\ hasCollision' = TRUE
            /\ iterations' = 0
            /\ pc' = "while"
    /\ UNCHANGED <<positions, ringRadius, direction, i, j, visited>>
    /\ UNCHANGED <<width, height, configuration, layoutMemo>>
    /\ UNCHANGED geomVars
    /\ UNCHANGED uiVars

\* if (positions.length < 2) return positions; const resolved = [...positions]
RcEnter ==
    /\ pc = "start"
    /\ IF Len(positions) < 2
       THEN /\ resolved' = positions
            /\ pc' = "done"
            /\ UNCHANGED <<hasCollision, iterations>>
       ELSE /\ resolved' = positions
            /\ hasCollision' = TRUE
            /\ iterations' = 0
            /\ pc' = "while"
    /\ UNCHANGED <<positions, ringRadius, direction, i, j, visited>>
    /\ UNCHANGED <<width, height, configuration, layoutMemo>>
    /\ UNCHANGED geomVars
    /\ UNCHANGED uiVars

\* the loop test, and the head of a pass when it succeeds
RcWhile ==
    /\ pc = "while"
    /\ IF LoopContinues(hasCollision, iterations)
       THEN /\ hasCollision' = FALSE
            /\ iterations' = iterations + 1
            /\ i' = 0
            /\ j' = 1
            /\ visited' = {}
            /\ pc' = "pair"
       ELSE /\ pc' = "done"
            /\ UNCHANGED <<hasCollision, iterations, i, j, visited>>
    /\ UNCHANGED <<positions, ringRadius, direction, resolved>>
    /\ UNCHANGED <<width, height, configuration, layoutMemo>>
    /\ UNCHANGED geomVars
    /\ UNCHANGED uiVars

\* the body of the inner for loop at (i, j), and the loop increments after it
RcPair ==
    /\ pc = "pair"
    /\ IF rectsCollide(resolved[i + 1], resolved[j + 1])
       THEN /\ hasCollision' = TRUE
            /\ resolved' = [resolved EXCEPT
                               ![j + 1] = MoveAlongRing(resolved[j + 1], ringRadius, direction)]
       ELSE UNCHANGED <<hasCollision, resolved>>
    /\ visited' = visited \cup {<<i, j>>}
    /\ IF j + 1 < Len(resolved)
       THEN /\ j' = j + 1
            /\ UNCHANGED <<i, pc>>
       ELSE IF i + 2 < Len(resolved)
       THEN /\ i' = i + 1
            /\ j' = i + 2
            /\ UNCHANGED pc
       ELSE /\ pc' = "while"
            /\ UNCHANGED <<i, j>>
    /\ UNCHANGED <<positions, ringRadius, direction, iterations>>
    /\ UNCHANGED <<width, height, configuration, layoutMemo>>
    /\ UNCHANGED geomVars
    /\ UNCHANGED uiVars

\* bounds of the resolver's inputs
MaxGateways == 3

MaxCount == 3

\* configuration.ringGap.value: the default, the collapsed rings, and the gap
\* that puts the inbound ring on the canvas centre
RingGaps == {90, 0, 0 - gatewayRingRadius}

\* One call of resolveCollisions from gatewayLayouts: the ideal inbound
\* (direction -1) or outbound (direction 1) cluster of gateway g of n.
InitRC ==
    /\ microservice = NoMicroservice
    /\ UiInit
    /\ width = 800
    /\ height = 800
    /\ configuration = NoConfiguration
    /\ layoutMemo = FirstRender
    /\ \E n \in 1..MaxGateways, count \in 0..MaxCount, gap \in RingGaps, dir \in {-1, 1} :
         \E g \in 1..n :
            LET angle == gatewayAngles(n)[g]
                radius == IF dir = -1 THEN inboundRingRadius(gap)
                          ELSE outboundRingRadius(gap)
            IN  /\ positions = IdealPositions(count, angle + dir * 20 * Deg, radius)
                /\ ringRadius = radius
                /\ direction = dir
    /\ resolved = <<>>
    /\ hasCollision = FALSE
    /\ iterations = 0
    /\ i = 0
    /\ j = 0
    /\ visited = {}
    /\ pc = "start"
    /\ GeomIdle

NextRC == RcEnter \/ RcWhile \/ RcPair

SpecRC == InitRC /\ [][NextRC]_vars

\* the resolver is a loop of a synchronous function: it keeps running
FairSpecRC == SpecRC /\ WF_vars(NextRC)

(***************************************************************************)
(* The geometry helpers, one call at a time                                *)
(***************************************************************************)
Abs(n) == IF n < 0 THEN 0 - n ELSE n

\* n / d rounded to the nearest integer
RoundDiv(n, d) ==
    LET q == (2 * Abs(n) + Abs(d)) \div (2 * Abs(d))
    IN  IF (n < 0) = (d < 0) THEN q ELSE 0 - q

\* the power of two p with p <= c < 2p, for c >= 1: the doubles of [p, 2p) are
\* spaced p * 2^-52 apart
Binade(c) == CHOOSE p \in {2^k : k \in 0..12} : p <= c /\ c < 2 * p

\* 1 / |Math.tan(Math.atan2(dy, 0))| = 6.1232e-17 and
\* |Math.tan(Math.atan2(0, dx))| = 1.2246e-16 for dx < 0 (Math.PI / 2 and
\* Math.PI are doubles, not the right and the straight angle), counted in
\* 1/ResidueUnit of 2^-53
RightAngleResidue == 55153

StraightAngleResidue == 110306

ResidueUnit == 100000

\* c + e for a pixel coordinate c >= 0 and a residue e = size / 2 * residue:
\* the sum is c again when e is below half the spacing of the doubles at c
Absorbs(c, size, residue) ==
    c >= 1 /\ size * residue < 2 * Binade(c) * ResidueUnit

\* a point in 1/Scale pixel; xResidue and yResidue tell whether the double is
\* above the grid value by a residue of the tan(atan2) round trip
EdgePoint(x, y, xResidue, yResidue) ==
    [x |-> x, y |-> y, xResidue |-> xResidue, yResidue |-> yResidue]

\* arguments in pixels, rectWidth and rectHeight positive, centre not negative
getRectEdgePoint(rectCenterX, rectCenterY, rectWidth, rectHeight, targetX, targetY) ==
    LET dx == targetX - rectCenterX
        dy == targetY - rectCenterY
        halfWidth == (rectWidth * Scale) \div 2
        halfHeight == (rectHeight * Scale) \div 2
    IN  IF dx = 0 /\ dy = 0
        THEN EdgePoint(rectCenterX * Scale, rectCenterY * Scale - halfHeight, 0, 0)
        ELSE IF Abs(dx) * rectHeight > Abs(dy) * rectWidth
        THEN LET edgeX == IF dx > 0 THEN halfWidth ELSE 0 - halfWidth
                 \* edgeX * tanAngle
                 edgeY == IF dy = 0 THEN 0 ELSE RoundDiv(edgeX * dy, dx)
                 yResidue == IF dy = 0 /\ dx < 0
                                  /\ ~Absorbs(rectCenterY, rectWidth, StraightAngleResidue)
                             THEN 1 ELSE 0
             IN  EdgePoint(rectCenterX * Scale + edgeX, rectCenterY * Scale + edgeY,
                           0, yResidue)
        ELSE LET edgeY == IF dy > 0 THEN halfHeight ELSE 0 - halfHeight
                 \* edgeY / tanAngle
                 edgeX == IF dx = 0 THEN 0 ELSE RoundDiv(edgeY * dx, dy)
                 xResidue == IF dx = 0
                                  /\ ~Absorbs(rectCenterX, rectHeight, RightAngleResidue)
                             THEN 1 ELSE 0
             IN  EdgePoint(rectCenterX * Scale + edgeX, rectCenterY * Scale + edgeY,
                           xResidue, 0)

\* Math.sqrt of a perfect square
Sqrt(v) == CHOOSE r \in 0..v : r * r = v

\* `M ${startX} ${startY} L ${endX} ${endY}`, coordinates in 1/Scale pixel
LinePath(startX, startY, endX, endY) ==
    [cmd |-> "L", startX |-> startX * Scale, startY |-> startY * Scale,
     endX |-> endX * Scale, endY |-> endY * Scale]

\* `M ${startX} ${startY} Q ${ctrlX} ${ctrlY} ${endX} ${endY}`
QuadPath(startX, startY, ctrlX, ctrlY, endX, endY) ==
    [cmd |-> "Q", startX |-> startX * Scale, startY |-> startY * Scale,
     ctrlX |-> ctrlX, ctrlY |-> ctrlY,
     endX |-> endX * Scale, endY |-> endY * Scale]

\* 0 / 0
NaN == "NaN"

\* the revision without the test of len: -dy / len and dx / len are 0 / 0 for
\* a segment of length zero
generateBezierPathUnguarded(startX, startY, endX, endY, curvature) ==
    LET midX == ((startX + endX) * Scale) \div 2
        midY == ((startY + endY) * Scale) \div 2
        dx == endX - startX
        dy == endY - startY
        len == Sqrt(dx * dx + dy * dy)
    IN  IF len = 0
        THEN QuadPath(startX, startY, NaN, NaN, endX, endY)
        ELSE LET perpX == RoundDiv((0 - dy) * Scale, len)
                 perpY == RoundDiv(dx * Scale, len)
                 offset == len * curvature
             IN  QuadPath(startX, startY,
                          midX + RoundDiv(perpX * offset, 10),
                          midY + RoundDiv(perpY * offset, 10),
                          endX, endY)

\* arguments in pixels, the segment of integer length, curvature in tenths
generateBezierPath(startX, startY, endX, endY, curvature) ==
    LET midX == ((startX + endX) * Scale) \div 2
        midY == ((startY + endY) * Scale) \div 2
        dx == endX - startX
        dy == endY - startY
        len == Sqrt(dx * dx + dy * dy)
    IN  IF len = 0
        THEN LinePath(startX, startY, endX, endY)
        ELSE LET perpX == RoundDiv((0 - dy) * Scale, len)
                 perpY == RoundDiv(dx * Scale, len)
                 offset == len * curvature
             IN  QuadPath(startX, startY,
                          midX + RoundDiv(perpX * offset, 10),
                          midY + RoundDiv(perpY * offset, 10),
                          endX, endY)

\* bound of the count argument of distributeOnArc
MaxArcCount == 8

\* start and end angles of the arcs, in half degrees
ArcAngles == {0, 29 * Deg, 30 * Deg, 90 * Deg, 210 * Deg, 240 * Deg, 270 * Deg}

ArcCall(count, startAngle, endAngle) ==
    [fn |-> "distributeOnArc", count |-> count,
     startAngle |-> startAngle, endAngle |-> endAngle]

\* The quotients (a + b) / 2 and (b - a) / (count - 1) of such a call are
\* multiples of half a degree: a double holds them exactly, and so does the
\* half-degree grid.
ArcOnGrid(c) ==
    \/ c.count = 0
    \/ c.count = 1 /\ (c.startAngle + c.endAngle) % 2 = 0
    \/ c.count >= 2 /\ (c.endAngle - c.startAngle) % (c.count - 1) = 0

\* distributeOnArc(8, 0, 29): 29 / 7 is not a double, the quotient is rounded
\* (the grid rounds it too, more coarsely)
ArcRoundingCall == ArcCall(8, 0, 29 * Deg)

ArcCalls ==
    {c \in {ArcCall(n, a, b) : n \in 0..MaxArcCount, a \in ArcAngles, b \in ArcAngles} :
        ArcOnGrid(c)}
    \cup {ArcRoundingCall}

\* rectangle centres on the canvas, rectangle sizes (the endpoint rectangle and
\* a square), and targets relative to the centre: on the axes, on the
\* diagonals of both rectangles, and elsewhere
EdgeCentres == {0, 8, 16, 64, 400}

EdgeSizes == {<<endpointWidth, endpointHeight>>, <<40, 40>>}

EdgeOffsets == {-100, 0, 100} \X {-100, 0, 100} \cup {<<60, 16>>, <<-150, -40>>, <<30, 200>>}

EdgeCalls ==
    {[fn |-> "getRectEdgePoint", rectCenterX |-> cx, rectCenterY |-> cy,
      rectWidth |-> sz[1], rectHeight |-> sz[2],
      targetX |-> cx + off[1], targetY |-> cy + off[2]] :
        cx \in EdgeCentres, cy \in {0, 400}, sz \in EdgeSizes, off \in EdgeOffsets}

\* bound of |dx| and |dy| of the segments
MaxSegment == 10

\* start points, curvatures in tenths (the default 0.3, the 0.2 and 0.1 of the
\* edges, none, and a negative one)
BezierStarts == {<<0, 0>>, <<400, 400>>, <<3, 7>>}

Curvatures == {3, 2, 1, 0, -3}

\* segments whose length is an integer: Math.sqrt is exact on them
BezierDeltas ==
    {d \in (0 - MaxSegment..MaxSegment) \X (0 - MaxSegment..MaxSegment) :
        \E r \in 0..(2 * MaxSegment) : r * r = d[1] * d[1] + d[2] * d[2]}

BezierCalls ==
    {[fn |-> "generateBezierPath", startX |-> st[1], startY |-> st[2],
      endX |-> st[1] + d[1], endY |-> st[2] + d[2], curvature |-> c] :
        st \in BezierStarts, d \in BezierDeltas, c \in Curvatures}

\* bound of the number of gateways of a graph
MaxGatewayCount == 12

\* gateway counts whose step 360 / n is a multiple of half a degree
RingCalls ==
    {[fn |-> "gatewayAngles", gatewayCount |-> n] :
        n \in {m \in 1..MaxGatewayCount : (360 * Deg) % m = 0}}

GeomCalls == ArcCalls \cup EdgeCalls \cup BezierCalls \cup RingCalls

\* the angles of the gateways of a graph and their positions on the gateway
\* ring: gatewayAngles[i] || 0 and getPointOnCircle(centerX, centerY, 140, angle)
ApplyGatewayAngles ==
    /\ call.fn = "gatewayAngles"
    /\ result = NoCall
    /\ result' = [fn |-> "gatewayAngles",
                  angles |-> gatewayAngles(call.gatewayCount),
                  positions |->
                      [k \in 1..call.gatewayCount |->
                          getPointOnCircle(centerX, centerY, gatewayRingRadius,
                                           gatewayAngles(call.gatewayCount)[k])]]
    /\ UNCHANGED <<call, microservice, width, height, configuration, layoutMemo>>
    /\ UNCHANGED uiVars
    /\ UNCHANGED rcVars


ApplyGenerateBezierPath ==
    /\ call.fn = "generateBezierPath"
    /\ result = NoCall
    /\ result' = [fn |-> "generateBezierPath",
                  path |-> generateBezierPath(call.startX, call.startY,
                               call.endX, call.endY, call.curvature)]
    /\ UNCHANGED <<call, microservice, width, height, configuration, layoutMemo>>
    /\ UNCHANGED uiVars
    /\ UNCHANGED rcVars


ApplyGetRectEdgePoint ==
    /\ call.fn = "getRectEdgePoint"
    /\ result = NoCall
    /\ result' = [fn |-> "getRectEdgePoint",
                  point |-> getRectEdgePoint(call.rectCenterX, call.rectCenterY,
                                call.rectWidth, call.rectHeight,
                                call.targetX, call.targetY)]
    /\ UNCHANGED <<call, microservice, width, height, configuration, layoutMemo>>
    /\ UNCHANGED uiVars
    /\ UNCHANGED rcVars


ApplyDistributeOnArc ==
    /\ call.fn = "distributeOnArc"
    /\ result = NoCall
    /\ result' = [fn |-> "distributeOnArc",
                  angles |-> distributeOnArc(call.count, call.startAngle, call.endAngle)]
    /\ UNCHANGED <<call, microservice, width, height, configuration, layoutMemo>>
    /\ UNCHANGED uiVars
    /\ UNCHANGED rcVars

InitGeom ==
    /\ microservice = NoMicroservice
    /\ width = 800
    /\ height = 800
    /\ configuration = NoConfiguration
    /\ layoutMemo = FirstRender
    /\ UiInit
    /\ RcIdle
    /\ call \in GeomCalls
    /\ result = NoCall

NextGeom ==
    \/ ApplyDistributeOnArc
    \/ ApplyGetRectEdgePoint
    \/ ApplyGenerateBezierPath
    \/ ApplyGatewayAngles

SpecGeom == InitGeom /\ [][NextGeom]_vars

(***************************************************************************)
(* Properties of the selection / hover / focus state machine               *)
(***************************************************************************)
\* the element of the last event if that event was a click on a node
LastClick == IF lastEvent.kind = "click" THEN lastEvent.ref ELSE Null

\* membership of a node in the connected set of its role
InConnectedSet(ref) ==
    /\ ~connectedElements.null
    /\ \/ ref.type = "microservice" /\ connectedElements.microservice
       \/ ref.type = "gateway" /\ ref.name \in connectedElements.gateways
       \/ ref.type = "inbound" /\ ref.name \in connectedElements.inbound
       \/ ref.type = "outbound" /\ ref.name \in connectedElements.outbound

\* C3: in every reachable state focusedElement equals selectedElement (both
\* none, or both the same (type, name)).
C3_FocusMirrorsSelection == focusedElement = selectedElement

C3_Witness ==
    /\ selectedElement # Null
    /\ focusedElement = selectedElement
    /\ hoveredElement # Null
    /\ hoveredElement # selectedElement

\* C4: a click on E from a state where E is not selected makes E the selected
\* and the focused element, and a second click on E right after it clears both.
C4_ClickTwiceClears ==
    [][ /\ (lastEvent'.kind = "click" /\ selectedElement # lastEvent'.ref)
            => (selectedElement' = lastEvent'.ref /\ focusedElement' = lastEvent'.ref)
        /\ (LastClick # Null /\ selBefore # LastClick /\ lastEvent'.kind = "click"
              /\ lastEvent'.ref = LastClick)
            => (selectedElement' = Null /\ focusedElement' = Null) ]_vars

C4_Witness ==
    /\ LastClick # Null
    /\ selBefore = LastClick
    /\ selectedElement = Null
    /\ focusedElement = Null

\* C5: with gateway G of the graph focused, the connected set has root = true,
\* gateways = {G}, inbound = the names of G's inbound list and outbound = the
\* names of G's outbound list.
C5_GatewayFocus ==
    \A g \in Range(GatewaysOf(microservice)) :
        focusedElement = ElementRef("gateway", g.name)
        => /\ ~connectedElements.null
           /\ connectedElements.microservice = TRUE
           /\ connectedElements.gateways = {g.name}
           /\ connectedElements.inbound = Range(ItemsOf(g.inbound))
           /\ connectedElements.outbound = Range(ItemsOf(g.outbound))

C5_Witness ==
    /\ Len(GatewaysOf(microservice)) = 2
    /\ focusedElement = ElementRef("gateway", "X")
    /\ connectedElements.inbound = {"Y"}
    /\ connectedElements.outbound = {"X", "Y"}

\* C6: while a focus is active every rendered node has opacity 1 when it is in
\* the connected set of its role and 0.2 otherwise, and every rendered edge has
\* opacity 1 exactly when both its end nodes are in the connected set and 0.2
\* otherwise.
C6_FocusOpacity ==
    (focusedElement # Null /\ ~RendersEmptyState)
    => /\ \A n \in RenderedNodes :
              getOpacity(n.name, n.type) = IF InConnectedSet(n) THEN 10 ELSE 2
       /\ \A e \in RenderedEdges :
              getConnectionOpacity(e[1].type, e[1].name, e[2].type, e[2].name)
                  = IF InConnectedSet(e[1]) /\ InConnectedSet(e[2]) THEN 10 ELSE 2

C6_Witness ==
    /\ focusedElement # Null
    /\ ~RendersEmptyState
    /\ \E e \in RenderedEdges : InConnectedSet(e[1]) /\ ~InConnectedSet(e[2])
    /\ \E e \in RenderedEdges : InConnectedSet(e[1]) /\ InConnectedSet(e[2])
    /\ \E n \in RenderedNodes : ~InConnectedSet(n)

\* C7 as claimed: a missing graph, an absent gateways field or an empty gateway
\* list gives the null layout and the empty state.
C7_Original ==
    (~microservice.present \/ ~microservice.gateways.present
        \/ microservice.gateways.items = <<>>)
    => (LayoutIsNull(microservice) /\ RendersEmptyState)

\* C7 as amended: a missing graph or an absent gateways field gives the null
\* layout and the empty state; an empty gateway list gives a layout (with no
\* gateway layouts) and the graph is rendered.
C7_NoLayout ==
    /\ (~microservice.present \/ ~microservice.gateways.present)
           => (LayoutIsNull(microservice) /\ RendersEmptyState)
    /\ (microservice.present /\ microservice.gateways.present)
           => (~LayoutIsNull(microservice) /\ ~RendersEmptyState)

C7_Witness ==
    /\ microservice.present
    /\ microservice.gateways.present
    /\ microservice.gateways.items = <<>>
    /\ ~RendersEmptyState
    /\ lastEvent.kind = "props"

\* C8 as claimed: with a graph on screen, a click or pointer-enter on a
\* (role, name) pair that is not in the current graph leaves selected, focused,
\* hovered and the connected set as they were.
C8_StaleReferenceNoOp ==
    [][ (SvgMounted /\ lastEvent'.kind \in {"click", "enter"}
            /\ lastEvent'.ref \notin RenderedNodes)
        => /\ selectedElement' = selectedElement
           /\ focusedElement' = focusedElement
           /\ hoveredElement' = hoveredElement
           /\ connectedElements' = connectedElements ]_vars

\* C9 as claimed: with inbound X selected and focused, no outbound endpoint or
\* gateway named X is marked selected or is in the connected set, and a click
\* on outbound X makes outbound X the selection.
C9_Original ==
    /\ [](\A x \in Names :
            (selectedElement = ElementRef("inbound", x)
                /\ focusedElement = ElementRef("inbound", x))
            => \A n \in RenderedNodes :
                   (n.name = x /\ n.type \in {"outbound", "gateway"})
                   => (~isSelected(n.name, n.type) /\ ~InConnectedSet(n)))
    /\ [][\A x \in Names :
            (selectedElement = ElementRef("inbound", x)
                /\ lastEvent' = Event("click", ElementRef("outbound", x), NodeTarget))
            => selectedElement' = ElementRef("outbound", x)]_vars

\* C9 as amended: with inbound X selected and focused, an outbound endpoint
\* named X is neither marked selected nor in the connected set; a gateway named
\* X is not marked selected and is in the connected set exactly when its own
\* inbound list contains X; a click on outbound X makes outbound X the
\* selection and the focus.
C9_RoleNameKey ==
    /\ [](\A x \in Names :
            (selectedElement = ElementRef("inbound", x)
                /\ focusedElement = ElementRef("inbound", x))
            => /\ ~isSelected(x, "outbound")
               /\ ~isSelected(x, "gateway")
               /\ ElementRef("outbound", x) \in RenderedNodes
                      => ~InConnectedSet(ElementRef("outbound", x))
               /\ \A g \in Range(GatewaysOf(microservice)) :
                      g.name = x
                      => (InConnectedSet(ElementRef("gateway", x))
                            <=> x \in Range(ItemsOf(g.inbound))))
    /\ [][\A x \in Names :
            (selectedElement = ElementRef("inbound", x)
                /\ lastEvent' = Event("click", ElementRef("outbound", x), NodeTarget))
            => (selectedElement' = ElementRef("outbound", x)
                  /\ focusedElement' = ElementRef("outbound", x))]_vars

C9_Witness ==
    /\ lastEvent = Event("click", ElementRef("outbound", "X"), NodeTarget)
    /\ selBefore = ElementRef("inbound", "X")
    /\ selectedElement = ElementRef("outbound", "X")
    /\ ElementRef("gateway", "X") \in RenderedNodes
    /\ ElementRef("inbound", "X") \in RenderedNodes
    /\ ElementRef("outbound", "X") \in RenderedNodes

\* C10: a click whose target is the svg or the background rect sets selected
\* and focused to none and leaves hovered and the tooltip unchanged; a click
\* whose target is any other element clears nothing, and a click on a node that
\* is not the selection makes that node the selection.
C10_BackgroundClick ==
    [][ /\ (lastEvent'.kind = "background"
              /\ (lastEvent'.target.tagName = "svg" \/ lastEvent'.target.background))
            => /\ selectedElement' = Null
               /\ focusedElement' = Null
               /\ hoveredElement' = hoveredElement
               /\ tooltip' = tooltip
        /\ (lastEvent'.kind = "background"
              /\ ~(lastEvent'.target.tagName = "svg" \/ lastEvent'.target.background))
            => /\ selectedElement' = selectedElement
               /\ focusedElement' = focusedElement
        /\ (lastEvent'.kind = "click" /\ selectedElement # lastEvent'.ref)
            => /\ selectedElement' = lastEvent'.ref
               /\ focusedElement' = lastEvent'.ref ]_vars

C10_Witness ==
    /\ lastEvent.kind = "background"
    /\ lastEvent.target.background
    /\ selBefore # Null
    /\ selectedElement = Null
    /\ focusedElement = Null
    /\ hoveredElement # Null
    /\ tooltip.visible

\* C11: a pointer-enter on element E of the mounted svg sets hovered to E and
\* a pointer-leave sets hovered to none, and neither changes selected or
\* focused; an element click or a background click never changes hovered.
C11_HoverIndependent ==
    [][ /\ (lastEvent'.kind = "enter" /\ SvgMounted)
            => hoveredElement' = lastEvent'.ref
        /\ lastEvent'.kind = "leave"
            => hoveredElement' = Null
        /\ lastEvent'.kind \in {"enter", "leave"}
            => (selectedElement' = selectedElement /\ focusedElement' = focusedElement)
        /\ lastEvent'.kind \in {"click", "background"}
            => hoveredElement' = hoveredElement ]_vars

C11_Witness ==
    /\ lastEvent.kind = "leave"
    /\ hoveredElement = Null
    /\ selectedElement # Null
    /\ selBefore = selectedElement
    /\ focusedElement = selectedElement

\* C12: with the root focused, the connected set has root = true, gateways =
\* the names of all gateways of the graph, and no inbound or outbound names.
C12_RootFocus ==
    (focusedElement.type = "microservice" /\ microservice.present)
    => /\ ~connectedElements.null
       /\ connectedElements.microservice = TRUE
       /\ connectedElements.gateways =
              {g.name : g \in Range(ItemsOf(microservice.gateways))}
       /\ connectedElements.inbound = {}
       /\ connectedElements.outbound = {}

C12_Witness ==
    /\ focusedElement = ElementRef("microservice", microservice.name)
    /\ microservice.present
    /\ connectedElements.gateways = {"X", "Y"}

\* C13: with inbound endpoint E focused, the connected set has inbound = {E},
\* gateways = the gateways whose inbound list contains E, root = false and no
\* outbound names; with outbound endpoint E focused it has outbound = {E},
\* gateways = the gateways whose outbound list contains E, root = false and no
\* inbound names.
C13_EndpointFocus ==
    /\ (focusedElement.type = "inbound" /\ microservice.present)
       => /\ ~connectedElements.null
          /\ connectedElements.inbound = {focusedElement.name}
          /\ connectedElements.gateways =
                 {g.name : g \in {h \in Range(ItemsOf(microservice.gateways)) :
                      \E k \in 1..Len(ItemsOf(h.inbound)) :
                          ItemsOf(h.inbound)[k] = focusedElement.name}}
          /\ connectedElements.microservice = FALSE
          /\ connectedElements.outbound = {}
    /\ (focusedElement.type = "outbound" /\ microservice.present)
       => /\ ~connectedElements.null
          /\ connectedElements.outbound = {focusedElement.name}
          /\ connectedElements.gateways =
                 {g.name : g \in {h \in Range(ItemsOf(microservice.gateways)) :
                      \E k \in 1..Len(ItemsOf(h.outbound)) :
                          ItemsOf(h.outbound)[k] = focusedElement.name}}
          /\ connectedElements.microservice = FALSE
          /\ connectedElements.inbound = {}

C13_Witness ==
    /\ focusedElement = ElementRef("inbound", "X")
    /\ Len(GatewaysOf(microservice)) = 2
    /\ connectedElements.gateways = {"Y"}
    /\ ElementRef("outbound", "X") \in RenderedNodes

\* C14: with no element focused the connected set is absent and every rendered
\* node and every rendered edge has opacity 1.
C14_NoFocusFullOpacity ==
    focusedElement = Null
    => /\ connectedElements.null
       /\ connectedElements.gateways = {}
       /\ connectedElements.inbound = {}
       /\ connectedElements.outbound = {}
       /\ \A n \in RenderedNodes : getOpacity(n.name, n.type) = 10
       /\ \A e \in RenderedEdges :
              getConnectionOpacity(e[1].type, e[1].name, e[2].type, e[2].name) = 10

C14_Witness ==
    /\ focusedElement = Null
    /\ selBefore # Null
    /\ lastEvent.kind = "background"
    /\ Cardinality(RenderedNodes) >= 4
    /\ RenderedEdges # {}

\* the fields of a RectPosition are all numbers
IsRectPosition(r) ==
    /\ DOMAIN r = {"x", "y", "angle", "topLeft", "bottomRight"}
    /\ {r.x, r.y, r.angle} \subseteq Int
    /\ {r.topLeft.x, r.topLeft.y, r.bottomRight.x, r.bottomRight.y} \subseteq Int

\* C17: for every gateway of a layout, inboundPositions has exactly as many
\* entries as the gateway's inbound list and outboundPositions as many as its
\* outbound list, before and after collision resolution; an empty or absent
\* list gives an empty sequence, and every entry is a rectangle.
C17_ClusterSizes ==
    ~layout.null
    => /\ Len(layout.gatewayLayouts) = Len(microservice.gateways.items)
       /\ \A k \in 1..Len(layout.gatewayLayouts) :
            LET gl == layout.gatewayLayouts[k]
                gw == microservice.gateways.items[k]
            IN  /\ gl.gateway = gw
                /\ Len(gl.idealInbound) = Len(ItemsOf(gw.inbound))
                /\ Len(gl.inboundPositions) = Len(ItemsOf(gw.inbound))
                /\ Len(gl.idealOutbound) = Len(ItemsOf(gw.outbound))
                /\ Len(gl.outboundPositions) = Len(ItemsOf(gw.outbound))
                /\ (~gw.inbound.present \/ gw.inbound.items = <<>>)
                       => gl.inboundPositions = <<>>
                /\ (~gw.outbound.present \/ gw.outbound.items = <<>>)
                       => gl.outboundPositions = <<>>
                /\ \A m \in 1..Len(gl.inboundPositions) :
                       IsRectPosition(gl.inboundPositions[m])
                /\ \A m \in 1..Len(gl.outboundPositions) :
                       IsRectPosition(gl.outboundPositions[m])

\* a layout of two gateways, one with an absent outbound list and one with a
\* cluster of two that the resolver has moved
C17_Witness ==
    /\ ~layout.null
    /\ Len(layout.gatewayLayouts) = 2
    /\ \E k \in 1..2 : ~microservice.gateways.items[k].outbound.present
    /\ \E k \in 1..2 :
          /\ Len(layout.gatewayLayouts[k].outboundPositions) = 2
          /\ layout.gatewayLayouts[k].outboundPositions
                 # layout.gatewayLayouts[k].idealOutbound

C27_Original ==
    focusedElement # Null
    => /\ InConnectedSet(focusedElement)
       /\ getOpacity(focusedElement.name, focusedElement.type) = 10

\* C27: whenever a focus is active the focused element has opacity 1; while the
\* graph is present it is in the connected set for its own role (microservice,
\* gateway, inbound, outbound), and while the graph is absent there is no
\* connected set at all.
C27_FocusedIsConnected ==
    focusedElement # Null
    => /\ getOpacity(focusedElement.name, focusedElement.type) = 10
       /\ microservice.present
          => /\ ~connectedElements.null
             /\ focusedElement.type = "microservice" => connectedElements.microservice
             /\ focusedElement.type = "gateway"
                   => focusedElement.name \in connectedElements.gateways
             /\ focusedElement.type = "inbound"
                   => focusedElement.name \in connectedElements.inbound
             /\ focusedElement.type = "outbound"
                   => focusedElement.name \in connectedElements.outbound
       /\ ~microservice.present => connectedElements.null

\* a rendered outbound endpoint is focused and other nodes are dimmed
C27_Witness ==
    /\ focusedElement = ElementRef("outbound", "Y")
    /\ focusedElement \in RenderedNodes
    /\ connectedElements.outbound = {"Y"}
    /\ \E n \in RenderedNodes : getOpacity(n.name, n.type) = 2
(***************************************************************************)
(* Properties of the geometry helpers                                      *)
(***************************************************************************)
\* C16: distributeOnArc(count, a, b) returns exactly count angles: none for
\* count 0, the single angle (a + b) / 2 for count 1, and for count >= 2
\* evenly spaced angles whose first is a and whose last is b exactly.
C16_ArcEndsExact ==
    result.fn = "distributeOnArc"
    => LET n == call.count
           angles == result.angles
       IN  /\ Len(angles) = n
           /\ n = 1 => 2 * angles[1] = call.startAngle + call.endAngle
           /\ n >= 2 =>
                /\ angles[1] = call.startAngle
                /\ angles[n] = call.endAngle
                /\ \A k \in 1..(n - 2) :
                      angles[k + 1] - angles[k] = angles[k + 2] - angles[k + 1]

\* C19: getRectEdgePoint returns the top-centre point (cx, cy - h/2) when the
\* target is directly above the centre, the right-centre point (cx + w/2, cy)
\* when the target is directly to the right, and the top-centre point when the
\* target equals the centre.
C19_TopAndRightCentre ==
    result.fn = "getRectEdgePoint"
    => LET dx == call.targetX - call.rectCenterX
           dy == call.targetY - call.rectCenterY
           topCentre == EdgePoint(call.rectCenterX * Scale,
                            call.rectCenterY * Scale - (call.rectHeight * Scale) \div 2,
                            0, 0)
           rightCentre == EdgePoint(call.rectCenterX * Scale + (call.rectWidth * Scale) \div 2,
                              call.rectCenterY * Scale, 0, 0)
       IN  /\ (dx = 0 /\ dy < 0) => result.point = topCentre
           /\ (dx > 0 /\ dy = 0) => result.point = rightCentre
           /\ (dx = 0 /\ dy = 0) => result.point = topCentre

\* C20: generateBezierPath with start equal to end returns the straight path
\* 'M x y L x y' and divides by nothing; for a segment of non-zero length it
\* returns a quadratic path whose control point is the midpoint displaced by
\* (-dy, dx) x curvature: perpendicular to the segment, at the distance
\* curvature x segment length.
C20_BezierPath ==
    result.fn = "generateBezierPath"
    => LET dx == call.endX - call.startX
           dy == call.endY - call.startY
           path == result.path
           midX == ((call.startX + call.endX) * Scale) \div 2
           midY == ((call.startY + call.endY) * Scale) \div 2
       IN  /\ (dx = 0 /\ dy = 0)
              => path = LinePath(call.startX, call.startY, call.startX, call.startY)
           /\ ~(dx = 0 /\ dy = 0)
              => /\ path.cmd = "Q"
                 /\ path.startX = call.startX * Scale /\ path.startY = call.startY * Scale
                 /\ path.endX = call.endX * Scale /\ path.endY = call.endY * Scale
                 /\ path.ctrlX = midX + ((0 - dy) * call.curvature * Scale) \div 10
                 /\ path.ctrlY = midY + (dx * call.curvature * Scale) \div 10
                 /\ (path.ctrlX - midX) * dx + (path.ctrlY - midY) * dy = 0
                 /\ LET tenthX == ((path.ctrlX - midX) * 10) \div Scale
                        tenthY == ((path.ctrlY - midY) * 10) \div Scale
                    IN  tenthX * tenthX + tenthY * tenthY
                           = call.curvature * call.curvature * (dx * dx + dy * dy)

\* a straight path for a point segment away from the origin, and a curve over
\* a slanted segment
C20_Witness ==
    /\ result.fn = "generateBezierPath"
    /\ \/ /\ call.startX = call.endX /\ call.startY = call.endY
          /\ call.startX = 400
          /\ result.path.cmd = "L"
       \/ /\ call.endX - call.startX = 3 /\ call.endY - call.startY = -4
          /\ call.curvature = 3
          /\ result.path.cmd = "Q"
          /\ result.path.ctrlX # ((call.startX + call.endX) * Scale) \div 2

\* C24: for n >= 1 gateways, gateway i (0-based) is placed at angle i x 360 / n
\* on the gateway ring; the angles are pairwise distinct and lie in [0, 360),
\* and a single gateway is placed at angle 0.
C24_GatewayAngles ==
    result.fn = "gatewayAngles"
    => LET n == call.gatewayCount
           angles == result.angles
       IN  /\ Len(angles) = n
           /\ \A k \in 1..n :
                 /\ angles[k] * n = (k - 1) * 360 * Deg
                 /\ 0 <= angles[k] /\ angles[k] < 360 * Deg
                 /\ result.positions[k].x
                        = centerX * Scale + gatewayRingRadius * Sin(angles[k])
                 /\ result.positions[k].y
                        = centerY * Scale - gatewayRingRadius * Cos(angles[k])
           /\ \A k, m \in 1..n : k # m => angles[k] # angles[m]
           /\ n = 1 => angles = <<0>>

C24_Witness ==
    /\ result.fn = "gatewayAngles"
    /\ call.gatewayCount = 12
    /\ result.angles[12] = 330 * Deg
    /\ result.positions[1] = Position(centerX * Scale, (centerY - gatewayRingRadius) * Scale)
(***************************************************************************)
(* Properties of the collision resolver                                    *)
(***************************************************************************)
\* two axis-aligned boxes of endpointWidth x endpointHeight around the centres
\* of a and b share a point
BoxesOverlap(a, b) ==
    LET dx == IF a.x >= b.x THEN a.x - b.x ELSE b.x - a.x
        dy == IF a.y >= b.y THEN a.y - b.y ELSE b.y - a.y
    IN  dx <= endpointWidth * Scale /\ dy <= endpointHeight * Scale

NoOverlap(rects) ==
    \A p \in AllPairs(Len(rects)) : ~BoxesOverlap(rects[p[1] + 1], rects[p[2] + 1])

\* C1: when resolveCollisions returns for a cluster of two or more rectangles,
\* no pair of the returned rectangles overlaps or exactly 100 passes were run.
C1_NoOverlapOrCeiling ==
    (pc = "done" /\ Len(positions) >= 2)
    => (NoOverlap(resolved) \/ iterations = 100)

C1_Witness ==
    /\ pc = "done"
    /\ Len(positions) = 3
    /\ ~NoOverlap(positions)
    /\ NoOverlap(resolved)
    /\ iterations > 2
    /\ iterations < 100

\* C2: resolveCollisions terminates on every input; it runs at most 100 passes;
\* within a pass every test is of a pair (i, j), i < j, not yet tested in that
\* pass, and a finished pass has tested every pair; a run that reaches the
\* ceiling returns its current sequence.
C2_BoundedPasses ==
    /\ [](iterations <= 100)
    /\ [](pc = "pair" => (<<i, j>> \in AllPairs(Len(resolved)) /\ <<i, j>> \notin visited))
    /\ []((pc \in {"while", "done"} /\ iterations > 0)
            => visited = AllPairs(Len(resolved)))
    /\ []((pc = "done" /\ Len(positions) >= 2 /\ hasCollision)
            => (iterations = 100 /\ Len(resolved) = Len(positions)))
    /\ <>(pc = "done")

C2_Witness ==
    /\ pc = "done"
    /\ iterations = 100
    /\ hasCollision
    /\ Len(resolved) = 3
    /\ \A k \in 1..Len(resolved) : resolved[k].x = resolved[1].x /\ resolved[k].y = resolved[1].y
    /\ visited = AllPairs(3)

\* C18: resolveCollisions returns a sequence of length 0 or 1 unchanged, for
\* every ring radius and direction, without running a pass.
C18_ShortUnchanged ==
    (pc = "done" /\ Len(positions) < 2)
    => /\ resolved = positions
       /\ iterations = 0
       /\ visited = {}

C18_Witness ==
    /\ pc = "done"
    /\ Len(positions) = 1
    /\ resolved = positions
    /\ ringRadius = 0
    /\ direction = -1

\* C21: a step of resolveCollisions changes a rectangle's angle only by adding
\* direction x 3 degrees, and only for the later rectangle j of the pair
\* (i, j), i < j, whose overlap it has just detected; the first rectangle is
\* never moved, a cluster resolved with direction -1 only moves to smaller
\* angles and one resolved with direction 1 only to larger angles.
C21_MovesOnlyLater ==
    /\ [][ pc # "start"
           => /\ Len(resolved') = Len(resolved)
              /\ \A k \in 1..Len(resolved) :
                    resolved'[k] # resolved[k]
                    => /\ pc = "pair"
                       /\ k = j + 1
                       /\ i < j
                       /\ rectsCollide(resolved[i + 1], resolved[j + 1])
                       /\ BoxesOverlap(resolved[i + 1], resolved[j + 1])
                       /\ resolved'[k].angle = resolved[k].angle + direction * 3 * Deg ]_vars
    /\ []( pc # "start"
           => /\ Len(resolved) = Len(positions)
              /\ Len(resolved) >= 1 => resolved[1] = positions[1]
              /\ \A k \in 1..Len(resolved) :
                    /\ direction = -1 => resolved[k].angle <= positions[k].angle
                    /\ direction = 1 => resolved[k].angle >= positions[k].angle
                    /\ (resolved[k].angle - positions[k].angle) % (3 * Deg) = 0 )

\* an inbound cluster of three whose third rectangle was moved more than once
C21_Witness ==
    /\ pc = "done"
    /\ direction = -1
    /\ Len(resolved) = 3
    /\ resolved[1] = positions[1]
    /\ resolved[3].angle <= positions[3].angle - 6 * Deg

\* the clusters of a layout: gateway index, role, ideal and resolved rectangles
ClustersOf(l) ==
    {[gateway |-> k, role |-> "inbound", ideal |-> l.gatewayLayouts[k].idealInbound,
      rects |-> l.gatewayLayouts[k].inboundPositions] : k \in 1..Len(l.gatewayLayouts)}
    \cup
    {[gateway |-> k, role |-> "outbound", ideal |-> l.gatewayLayouts[k].idealOutbound,
      rects |-> l.gatewayLayouts[k].outboundPositions] : k \in 1..Len(l.gatewayLayouts)}

\* some rectangle of cluster a overlaps some rectangle of cluster b
ClustersOverlap(a, b) ==
    \E m \in 1..Len(a.rects), n \in 1..Len(b.rects) : BoxesOverlap(a.rects[m], b.rects[n])

\* C22: collision resolution is scoped to one cluster: the rectangles of a
\* cluster are the resolver's result on that cluster's own ideal rectangles,
\* whatever the other clusters of the layout are, and a cluster without an
\* overlap of its own keeps its ideal rectangles even where they overlap
\* rectangles of another cluster.
C22_ClusterScoped ==
    \A c \in ClustersOf(layoutMemo.value) :
        LET radius == IF c.role = "inbound" THEN gatewayRingRadius + ringGap
                      ELSE gatewayRingRadius + 2 * ringGap
            dir == IF c.role = "inbound" THEN -1 ELSE 1
        IN  /\ c.rects = resolveCollisions(c.ideal, radius, dir)
            /\ NoOverlap(c.ideal) => c.rects = c.ideal

\* the rendered layout has two clusters that overlap each other, one of them
\* left at its ideal rectangles
C22_Witness ==
    \E a, b \in ClustersOf(layoutMemo.value) :
        /\ a # b
        /\ ClustersOverlap(a, b)
        /\ a.rects = a.ideal
        /\ Len(b.rects) = 2

\* C25: before collision resolution endpoint k (0-based) of a cluster of c
\* endpoints has angle centre - (c - 1) x 15 / 2 + k x 15, with centre the
\* gateway's angle - 20 for inbound and + 20 for outbound; a single endpoint
\* is at the centre angle and the angles are symmetric about it.
C25_IdealAngles ==
    \A c \in ClustersOf(layoutMemo.value) :
        LET gl == layoutMemo.value.gatewayLayouts[c.gateway]
            list == IF c.role = "inbound" THEN gl.gateway.inbound ELSE gl.gateway.outbound
            count == Len(ItemsOf(list))
            centre == IF c.role = "inbound" THEN gl.angle - 20 * Deg
                      ELSE gl.angle + 20 * Deg
        IN  /\ Len(c.ideal) = count
            /\ \A m \in 1..count :
                  /\ 2 * c.ideal[m].angle
                        = 2 * centre - (count - 1) * 15 * Deg + 2 * (m - 1) * 15 * Deg
                  /\ c.ideal[m].angle + c.ideal[count + 1 - m].angle = 2 * centre
            /\ count = 1 => c.ideal[1].angle = centre

\* a gateway at 180 degrees with an inbound cluster of one, and an outbound
\* cluster of two around 20 degrees
C25_Witness ==
    \E a, b \in ClustersOf(layoutMemo.value) :
        /\ layoutMemo.value.gatewayLayouts[a.gateway].angle = 180 * Deg
        /\ a.role = "inbound" /\ Len(a.ideal) = 1 /\ a.ideal[1].angle = 160 * Deg
        /\ layoutMemo.value.gatewayLayouts[b.gateway].angle = 0
        /\ b.role = "outbound" /\ Len(b.ideal) = 2
        /\ b.ideal[1].angle = 12 * Deg + 1
        /\ b.ideal[2].angle = 27 * Deg + 1

\* r is the endpoint rectangle of the ring of the given radius at r.angle
OnRing(r, radius) ==
    /\ r.x = centerX * Scale + radius * Cos(r.angle - 90 * Deg)
    /\ r.y = centerY * Scale + radius * Sin(r.angle - 90 * Deg)
    /\ r.topLeft = Position(r.x - 60 * Scale, r.y - 16 * Scale)
    /\ r.bottomRight = Position(r.x + 60 * Scale, r.y + 16 * Scale)

\* C26: every rectangle of a layout, ideal or moved by the resolver, is
\* consistent with its angle: its centre is the point of its own ring around
\* the canvas centre at that angle, topLeft = (x - 60, y - 16) and
\* bottomRight = (x + 60, y + 16).
C26_RectConsistent ==
    \A c \in ClustersOf(layoutMemo.value) :
        LET radius == IF c.role = "inbound" THEN gatewayRingRadius + ringGap
                      ELSE gatewayRingRadius + 2 * ringGap
        IN  \A m \in 1..Len(c.rects) :
                /\ OnRing(c.ideal[m], radius)
                /\ OnRing(c.rects[m], radius)

\* on the larger canvas, a layout with a rectangle the resolver has moved
C26_Witness ==
    /\ width = 900
    /\ \E c \in ClustersOf(layoutMemo.value) :
          \E m \in 1..Len(c.rects) :
              /\ c.rects[m].angle # c.ideal[m].angle
              /\ c.rects[m].topLeft.x = c.rects[m].x - 60 * Scale
              /\ c.rects[m].topLeft # c.ideal[m].topLeft

(***************************************************************************)
(* C28: in every reachable state the tooltip is visible exactly when an    *)
(* element is hovered: a pointer-enter on a rendered node sets the hover   *)
(* and shows the tooltip in the same step, a pointer-leave clears the      *)
(* hover and hides the tooltip in the same step, and a click on a node or  *)
(* on the background changes neither the hover nor the tooltip.            *)
(***************************************************************************)
C28_TooltipFollowsHover ==
    /\ [](tooltip.visible <=> hoveredElement # Null)
    /\ [][ /\ (lastEvent'.kind = "enter" /\ SvgMounted)
              => (hoveredElement' = lastEvent'.ref /\ tooltip'.visible)
           /\ lastEvent'.kind = "leave"
              => (hoveredElement' = Null /\ ~tooltip'.visible)
           /\ lastEvent'.kind \in {"click", "background"}
              => UNCHANGED <<hoveredElement, tooltip>> ]_vars

\* a node was clicked while the pointer rests on it: the tooltip is still shown
C28_Witness ==
    /\ lastEvent.kind = "click"
    /\ hoveredElement # Null
    /\ hoveredElement = lastEvent.ref
    /\ tooltip.visible
    /\ selectedElement # Null

(***************************************************************************)
(* C29: resolveCollisions is idempotent on a collision-free result: when   *)
(* the rectangles it returned contain no overlapping pair, a second call   *)
(* on them with the same ring radius and direction runs one pass (none for *)
(* fewer than two rectangles), finds no collision in it, stops after it    *)
(* and returns the same rectangles, angles and positions alike.            *)
(***************************************************************************)
C29_Idempotent ==
    (pc = "done" /\ NoOverlap(resolved))
    => /\ Len(resolved) >= 2
          => LET pass == ResolvePairs(resolved, 0, 1, FALSE, ringRadius, direction)
             IN  /\ LoopContinues(TRUE, 0)
                 /\ pass.resolved = resolved
                 /\ ~pass.hasCollision
                 /\ ~LoopContinues(pass.hasCollision, 1)
       /\ resolveCollisions(resolved, ringRadius, direction) = resolved

\* a cluster of three whose ideal places overlap was spread by the first call,
\* and the second call on the result leaves it as it is
C29_Witness ==
    /\ pc = "done"
    /\ Len(positions) = 3
    /\ ~NoOverlap(positions)
    /\ resolved # positions
    /\ NoOverlap(resolved)
    /\ resolveCollisions(resolved, ringRadius, direction) = resolved
    /\ resolveCollisions(positions, ringRadius, direction) = resolved

(***************************************************************************)
(* C30: for a rectangle of positive width and height and a target other    *)
(* than the centre, getRectEdgePoint returns a boundary point on the       *)
(* target's side: the offset (ex, ey) of the result from the centre has    *)
(* |ex| <= w/2 and |ey| <= h/2 with equality on at least one axis, ex has  *)
(* the sign of dx and ey the sign of dy, and when |dx| x h/2 = |dy| x w/2  *)
(* the result is the corner.  A result above its grid value by a residue   *)
(* has a positive offset on that axis when the grid offset is 0.           *)
(***************************************************************************)
C30_EdgeTowardsTarget ==
    result.fn = "getRectEdgePoint"
    => LET Sgn(v) == IF v > 0 THEN 1 ELSE IF v < 0 THEN -1 ELSE 0
           dx == call.targetX - call.rectCenterX
           dy == call.targetY - call.rectCenterY
           halfWidth == (call.rectWidth * Scale) \div 2
           halfHeight == (call.rectHeight * Scale) \div 2
           ex == result.point.x - call.rectCenterX * Scale
           ey == result.point.y - call.rectCenterY * Scale
           exSign == IF ex # 0 THEN Sgn(ex) ELSE result.point.xResidue
           eySign == IF ey # 0 THEN Sgn(ey) ELSE result.point.yResidue
       IN  (dx # 0 \/ dy # 0)
           => /\ Abs(ex) <= halfWidth
              /\ Abs(ey) <= halfHeight
              /\ Abs(ex) = halfWidth \/ Abs(ey) = halfHeight
              /\ exSign = Sgn(dx)
              /\ eySign = Sgn(dy)
              /\ Abs(dx) * call.rectHeight = Abs(dy) * call.rectWidth
                 => (Abs(ex) = halfWidth /\ Abs(ey) = halfHeight)

====
